---- MODULE Spec2Model ----
(***************************************************************************)
(* Model of the snap_memories pipeline: asset discovery (fs.py), planning  *)
(* (planner.py), execution (executors.py), dry-run simulation              *)
(* (simulator.py) and the run orchestration (pipeline.py, cli.py).         *)
(*                                                                         *)
(* File names are sequences of tokens ("a1", "-main", ".", "jpg"), so the  *)
(* string operations of the source (substring test, suffix, stem, lower,   *)
(* replace) are computed on the name and not assumed.  A directory is the  *)
(* sequence of its path components; a file is [dir, name].                 *)
(***************************************************************************)
EXTENDS Integers, Sequences, FiniteSets, TLC

VARIABLES
    mode,        \* "folder" (run_folder_mode) or "download" (run_download_mode)
    dry,         \* cfg.dry_run
    out,         \* cfg.output_dir
    fs,          \* files that exist
    dirs,        \* directories created by the run that exist
    fs0,         \* the filesystem snapshot the run started from
    dirs0,       \* the directories that existed when the run started
    entries,     \* content of each archive: [zip |-> name, dir, name]
    items,       \* download items listed in the export HTML
    html,        \* the export HTML: "none" (not given), "missing", "empty", "bad", "ok"
    pc,          \* position of the run
    exit,        \* exit status of the process; -1 while running
    todo,        \* plans of the running service not yet handled
    done,        \* the running service's local counter: its successes, or
                 \* the progress bar of CombineService.run
    plans,       \* the plan lists built so far, by phase
    counts,      \* the count each service returned, by phase
    stats,       \* DryRunSimulator.stats
    passed,      \* the counts handed to the simulator so far, by counter
    tasks,       \* composition futures: plan and state
    collected,   \* futures the as_completed loop has consumed
    dl,          \* download futures: item and state
    md,          \* metadata futures: file, extension and state
    pending,     \* the exception travelling out of a phase: "none", "error", "interrupt"
    summary      \* whether the end-of-run summary was printed

vars == <<mode, dry, out, fs, dirs, fs0, dirs0, entries, items, html, pc, exit,
          todo, done, plans, counts, stats, passed, tasks, collected, dl, md,
          pending, summary>>

----------------------------------------------------------------------------
(* Bounds *)

\* most files (loose files, archive entries, download items) of a drawn snapshot
MaxFiles == 3

\* cfg.image_workers and cfg.video_workers of the modelled runs
ImageWorkers == 2

VideoWorkers == 1

\* cfg.download_workers and cfg.metadata_workers of the modelled runs
DownloadWorkers == 2

MetadataWorkers == 2

\* longest plan list handed to the simulator in one direct call
MaxPlans == 2

\* most plans and items handed to a simulator object that is called directly
MaxPassed == 4

----------------------------------------------------------------------------
(* Strings *)

\* str.lower(), token by token
Lower(tok) ==
    CASE tok = "MP4" -> "mp4"
      [] tok = "JPG" -> "jpg"
      [] tok = "PNG" -> "png"
      [] tok = "ZIP" -> "zip"
      [] tok = "-MAIN" -> "-main"
      [] tok = "C3" -> "c3"
      [] OTHER -> tok

LowerSeq(s) == [i \in 1..Len(s) |-> Lower(s[i])]

\* `sub in s`
Contains(s, sub) ==
    \E i \in 0..(Len(s) - Len(sub)) :
        \A j \in 1..Len(sub) : s[i + j] = sub[j]

\* s.endswith(sub)
EndsWith(s, sub) ==
    /\ Len(sub) <= Len(s)
    /\ SubSeq(s, Len(s) - Len(sub) + 1, Len(s)) = sub

\* str.rfind("."), 0 when there is none
LastDot(n) ==
    LET D == {i \in 1..Len(n) : n[i] = "."}
    IN IF D = {} THEN 0 ELSE CHOOSE i \in D : \A j \in D : j <= i

\* pathlib: a suffix starts at the last dot unless the dot leads or ends the name
HasSuffix(n) == LastDot(n) > 1 /\ LastDot(n) < Len(n)

suffix(n) == IF HasSuffix(n) THEN SubSeq(n, LastDot(n), Len(n)) ELSE <<>>

stem(n) == IF HasSuffix(n) THEN SubSeq(n, 1, LastDot(n) - 1) ELSE n

with_suffix(n, sfx) == stem(n) \o sfx

IsNotMainTok(t) == t # "-main"

\* str.replace("-main", "")
RemoveMain(s) == SelectSeq(s, IsNotMainTok)

IMAGE_EXTS == {<<".", "jpg">>, <<".", "jpeg">>, <<".", "png">>}

VIDEO_EXT == <<".", "mp4">>

ZIP_EXT == <<".", "zip">>

----------------------------------------------------------------------------
(* Paths *)

File(d, n) == [dir |-> d, name |-> n]

IsPrefix(p, d) == Len(p) <= Len(d) /\ SubSeq(d, 1, Len(p)) = p

is_within_path(child, parent) == IsPrefix(parent, child)

\* src.relative_to(root), then joined to dst_root
Rebase(d, root, dst_root) == dst_root \o SubSeq(d, Len(root) + 1, Len(d))

RECURSIVE SeqOf(_)
SeqOf(S) ==
    IF S = {} THEN <<>>
    ELSE LET x == CHOOSE y \in S : TRUE IN <<x>> \o SeqOf(S \ {x})

Range(s) == {s[i] : i \in 1..Len(s)}

\* os.walk(root): every file below root, in directory order
iter_files_recursively(fsys, root) ==
    SeqOf({f \in fsys : IsPrefix(root, f.dir)})

\* no directory is ever skipped
should_skip_dir_never(current_dir, input_root, output_folder) == FALSE

should_skip_dir(current_dir, input_root, output_folder) ==
    /\ is_within_path(output_folder, input_root)
    /\ is_within_path(current_dir, output_folder)

\* files whose content starts with the archive signature PK\x03\x04
HasZipMagic(n) == n[1] = "pk" \/ suffix(n) = ZIP_EXT

find_zip_files_top_level(fsys, folder) ==
    SeqOf({f \in fsys :
              /\ f.dir = folder
              /\ \/ LowerSeq(suffix(f.name)) = ZIP_EXT
                 \/ HasZipMagic(f.name)})

IsMainFile(f) == Contains(f.name, <<"-main", ".">>)

enumerate_main_files(fsys, scan_folder) ==
    SelectSeq(iter_files_recursively(fsys, scan_folder), IsMainFile)

\* the extension is returned as written
split_uuid_and_ext_keepcase(n) ==
    [uuid |-> RemoveMain(stem(n)), ext |-> suffix(n)]

split_uuid_and_ext(n) ==
    [uuid |-> RemoveMain(stem(n)), ext |-> LowerSeq(suffix(n))]

----------------------------------------------------------------------------
(* Planner *)

NoPath == <<"<None>">>

ExtractZipPlan(z, dest) == [zip_path |-> z, dest_folder |-> dest]

CopyPlan(src, dst) == [src |-> src, dst |-> dst]

RenamePlan(src, dst) == [src |-> src, dst |-> dst]

CombinePlan(m, o, outp, kind) ==
    [main_path |-> m, overlay_path |-> o, out_path |-> outp, kind |-> kind]

plan_zip_extractions(fsys, input_folder, dest_folder) ==
    LET zs == find_zip_files_top_level(fsys, input_folder)
    IN [i \in 1..Len(zs) |-> ExtractZipPlan(zs[i], dest_folder)]

\* the test of planner.py:43, `if not dst.exists()`
CopyDstFree(fsys, dst) == dst \notin fsys

plan_copy_standalone_mp4s(fsys, input_folder, output_folder) ==
    LET Dst(f) == File(Rebase(f.dir, input_folder, output_folder), f.name)
        Wanted(f) ==
            LET lower == LowerSeq(f.name)
            IN /\ ~should_skip_dir(f.dir, input_folder, output_folder)
               /\ EndsWith(lower, VIDEO_EXT)
               /\ ~(Contains(lower, <<"-main", ".">>)
                      \/ Contains(lower, <<"_combined", ".">>))
               /\ CopyDstFree(fsys, Dst(f))
        srcs == SelectSeq(iter_files_recursively(fsys, input_folder), Wanted)
    IN [i \in 1..Len(srcs) |-> CopyPlan(srcs[i], Dst(srcs[i]))]

plan_unlabeled_renames(fsys, source_root, dst_root, skip_root) ==
    LET Wanted(f) ==
            /\ ~(skip_root # NoPath /\ IsPrefix(skip_root, f.dir))
            /\ ~EndsWith(LowerSeq(f.name), ZIP_EXT)
            /\ ~Contains(f.name, <<".">>)
        Dst(f) == File(Rebase(f.dir, source_root, dst_root),
                       with_suffix(f.name, <<".", "jpg">>))
        srcs == SelectSeq(iter_files_recursively(fsys, source_root), Wanted)
    IN [i \in 1..Len(srcs) |-> RenamePlan(srcs[i], Dst(srcs[i]))]

OverlayOf(m) ==
    File(m.dir, split_uuid_and_ext(m.name).uuid \o <<"-overlay", ".", "png">>)

\* the plans planner.py:84-108 appends for one main file
CombinePlansFor(fsys, m, output_folder) ==
    LET ue == split_uuid_and_ext(m.name)
        overlay_path == OverlayOf(m)
    IN IF overlay_path \notin fsys THEN <<>>
       ELSE IF ue.ext \in IMAGE_EXTS
            THEN <<CombinePlan(m, overlay_path,
                               File(output_folder, ue.uuid \o <<".", "jpg">>),
                               "image")>>
       ELSE IF ue.ext = <<".", "mp4">>
            THEN <<CombinePlan(m, overlay_path,
                               File(output_folder, ue.uuid \o <<".", "mp4">>),
                               "video")>>
       ELSE <<>>

RECURSIVE CombinePlansOver(_, _, _)
CombinePlansOver(fsys, mains, output_folder) ==
    IF mains = <<>> THEN <<>>
    ELSE CombinePlansFor(fsys, Head(mains), output_folder)
         \o CombinePlansOver(fsys, Tail(mains), output_folder)

plan_filesystem_combinations(fsys, scan_folder, output_folder) ==
    CombinePlansOver(fsys, enumerate_main_files(fsys, scan_folder),
                     output_folder)

----------------------------------------------------------------------------
(* The snapshots a run starts from *)

InDir == <<"in">>

OutChoices == {<<"out">>, <<"in", "out">>}

tmp_root(o) == o \o <<".tmp_work">>

A1Main == File(InDir, <<"a1", "-main", ".", "jpg">>)
A1Overlay == File(InDir, <<"a1", "-overlay", ".", "png">>)
B2Main == File(InDir, <<"b2", "-main", ".", "mp4">>)
LooseMp4 == File(InDir, <<"loose", ".", "mp4">>)
NoExt1 == File(InDir, <<"noext1">>)
ExportZip == File(InDir, <<"export", ".", "zip">>)
MoreZip == File(InDir, <<"more", ".", "zip">>)

\* archives under another name: the content starts with the archive signature
PkBare == File(InDir, <<"pk">>)
PkDat == File(InDir, <<"pk", ".", "dat">>)

\* a video an earlier version of the tool composited
CombinedMp4 == File(InDir, <<"a1", "_combined", ".", "MP4">>)

\* files of the sub-folder in/out, which is the output folder when that is
\* nested in the input folder
OldMp4 == File(<<"in", "out">>, <<"loose", ".", "mp4">>)
OldNoExt == File(<<"in", "out">>, <<"old">>)

LooseUniverse ==
    {A1Main, A1Overlay, B2Main, LooseMp4, NoExt1, ExportZip, MoreZip,
     PkBare, PkDat, CombinedMp4, OldMp4, OldNoExt}

\* what an output folder can hold before a download-mode run
OutPkBare == File(<<"out">>, <<"pk">>)
OutPkDat == File(<<"out">>, <<"pk", ".", "dat">>)
OutPkZip == File(<<"out">>, <<"pk", ".", "zip">>)

OutUniverse == {OutPkBare, OutPkDat, OutPkZip}

\* archive entries: directory inside the archive, and name
C3Main == File(<<>>, <<"c3", "-main", ".", "png">>)
C3Overlay == File(<<>>, <<"c3", "-overlay", ".", "png">>)
D4Main == File(<<>>, <<"d4", "-main", ".", "mov">>)
D4Overlay == File(<<>>, <<"d4", "-overlay", ".", "png">>)
E5Main == File(<<>>, <<"e5", "-main", ".", "MP4">>)
E5Overlay == File(<<>>, <<"e5", "-overlay", ".", "png">>)
NoExt2 == File(<<>>, <<"noext2">>)
C3OverlayElsewhere == File(<<"s">>, <<"c3", "-overlay", ".", "png">>)

EntryUniverse ==
    {C3Main, C3Overlay, D4Main, D4Overlay, E5Main, E5Overlay, NoExt2,
     C3OverlayElsewhere}

\* a main file whose identifier is written in upper case, part of the
\* snapshot UpperCased only
C3MainUpper == File(<<>>, <<"C3", "-main", ".", "jpg">>)

\* the image c3 once more, under another extension and in another
\* directory, part of the snapshot Duplicated only
C3MainJpg == File(<<>>, <<"c3", "-main", ".", "jpg">>)
C3MainElsewhere == File(<<"s">>, <<"c3", "-main", ".", "png">>)

\* a second video pair, part of the snapshot TwoVideos only
F6Main == File(<<>>, <<"f6", "-main", ".", "mp4">>)
F6Overlay == File(<<>>, <<"f6", "-overlay", ".", "png">>)

\* download items: identifier, kind, and the extension download.py:63-71
\* derives from the response's content type
Item(u, k, e) == [uuid |-> u, kind |-> k, ext |-> e]

ItemUniverse ==
    {Item("u1", "image", "zip"), Item("u2", "video", "mp4"),
     Item("u3", "image", "jpg")}

\* the archives that hold `entries`; every other archive is empty
HoldsEntries(z) == z.name[1] \in {"export", "u1"}

ZipContent(z, ents) == IF HoldsEntries(z) THEN ents ELSE {}

Snapshot(m, o, tree, ents, its, h) ==
    [mode |-> m, out |-> o, tree |-> tree, entries |-> ents, items |-> its,
     html |-> h,
     dirs |-> {f.dir : f \in tree} \cup (IF m = "folder" THEN {InDir} ELSE {})]

\* the scenario of the specification's section 8
Scenario ==
    Snapshot("folder", <<"out">>,
             {A1Main, A1Overlay, B2Main, LooseMp4, NoExt1, ExportZip},
             {C3Main, C3Overlay}, {}, "none")

\* an export with an image pair, a video pair and an untyped file archived
TwoPairs ==
    Snapshot("folder", <<"out">>, {ExportZip, MoreZip, LooseMp4, NoExt1},
             {C3Main, C3Overlay, E5Main, E5Overlay, NoExt2, D4Main, D4Overlay},
             {}, "ok")

\* an export with two video pairs and an image pair
TwoVideos ==
    Snapshot("folder", <<"out">>, {ExportZip},
             {C3Main, C3Overlay, E5Main, E5Overlay, F6Main, F6Overlay},
             {}, "ok")

\* an image an earlier run left in the output folder as PNG, and an
\* extensionless PNG-encoded image of the input folder
OldPng == File(<<"out">>, <<"c3", ".", "png">>)
Z9NoExt == File(InDir, <<"z9">>)

Retagged ==
    Snapshot("folder", <<"out">>, {OldPng, Z9NoExt, LooseMp4}, {}, {}, "ok")

\* an export whose main file and overlay differ in the case of the identifier
UpperCased ==
    Snapshot("folder", <<"out">>, {ExportZip}, {C3MainUpper, C3Overlay}, {},
             "ok")

\* an export that holds one identifier as main file three times
Duplicated ==
    Snapshot("folder", <<"out">>, {ExportZip},
             {C3Main, C3MainJpg, C3Overlay, C3MainElsewhere,
              C3OverlayElsewhere}, {}, "none")

TwoPairsDownloaded ==
    Snapshot("download", <<"out">>, {},
             {C3Main, C3Overlay, E5Main, E5Overlay, NoExt2},
             {Item("u1", "image", "zip"), Item("u2", "video", "mp4")}, "ok")

\* the subsets of S a drawn snapshot can hold
Few(S) == {T \in SUBSET S : Cardinality(T) <= MaxFiles}

FolderSnapshots ==
    {Snapshot("folder", o, tree, ents, {}, h) :
        o \in OutChoices, h \in {"none", "ok", "missing"},
        tree \in Few(LooseUniverse), ents \in Few(EntryUniverse)}

DownloadSnapshots ==
    {Snapshot("download", <<"out">>, tree, ents, its, "ok") :
        tree \in Few(OutUniverse), its \in Few(ItemUniverse),
        ents \in Few(EntryUniverse)}

InvalidSnapshots ==
    {[Snapshot("folder", <<"out">>, {}, {}, {}, "none") EXCEPT !.dirs = {}],
     Snapshot("download", <<"out">>, {}, {}, {}, "missing"),
     Snapshot("download", <<"out">>, {}, {}, {}, "empty"),
     Snapshot("download", <<"out">>, {}, {}, {}, "bad")}

\* entries are drawn only when an archive that holds them is part of the snapshot
WellFormed(s) ==
    /\ Cardinality(s.tree) + Cardinality(s.entries) + Cardinality(s.items)
          <= MaxFiles
    /\ s.entries # {} =>
          \/ ExportZip \in s.tree
          \/ Item("u1", "image", "zip") \in s.items

Snapshots ==
    {s \in FolderSnapshots \cup DownloadSnapshots : WellFormed(s)}
      \cup InvalidSnapshots
      \cup {Scenario, TwoPairs, TwoVideos, TwoPairsDownloaded, Retagged,
              UpperCased, Duplicated}

----------------------------------------------------------------------------
(* State of a run *)

NotRun == 0 - 1

PlanKeys == {"copy", "rename_in", "extract", "rename_tmp", "combine"}

CountKeys ==
    {"dl_img", "dl_vid", "fixed", "copy", "rename_in", "extract",
     "rename_tmp", "img", "vid", "img_tag", "vid_tag", "removed"}

StatKeys ==
    {"downloaded_images", "downloaded_videos", "fixed_zips", "extracted_zips",
     "copied_mp4s", "renamed_files", "combined_images", "combined_videos",
     "removed_zips"}

cfgvars == <<mode, dry, out, fs0, dirs0, entries, items, html>>

Init ==
    /\ \E s \in Snapshots :
          /\ mode = s.mode
          /\ out = s.out
          /\ fs = s.tree
          /\ fs0 = s.tree
          /\ dirs = s.dirs
          /\ dirs0 = s.dirs
          /\ entries = s.entries
          /\ items = s.items
          /\ html = s.html
    /\ dry \in BOOLEAN
    /\ pc \in {"start", "svc", "sim"}
    /\ pc = "svc" => dry /\ mode = "folder" /\ InDir \in dirs
    /\ pc = "sim" => dry /\ mode = "folder" /\ fs = Scenario.tree
                        /\ entries = Scenario.entries /\ html = "none"
                        /\ out = Scenario.out
    /\ exit = -1
    /\ todo = <<>>
    /\ done = 0
    /\ plans = [k \in PlanKeys |-> <<>>]
    /\ counts = [k \in CountKeys |-> NotRun]
    /\ stats = [k \in StatKeys |-> 0]
    /\ passed = [k \in StatKeys |-> 0]
    /\ tasks = <<>>
    /\ collected = {}
    /\ dl = <<>>
    /\ md = <<>>
    /\ pending = "none"
    /\ summary = FALSE

\* input_folder of the processing phases: the input folder, or in download
\* mode the output folder the files were downloaded to
Root == IF mode = "folder" THEN InDir ELSE out

Tmp == tmp_root(out)

\* `out if out.is_relative_to(input_folder) else None`; None in download mode
SkipRoot ==
    IF mode = "folder" /\ IsPrefix(InDir, out) THEN out ELSE NoPath

\* the order of the phases inside run_folder_mode and run_download_mode
After(ph) ==
    IF mode = "folder"
    THEN CASE ph = "tmp" -> "copy"
           [] ph = "copy" -> "rename_in"
           [] ph = "rename_in" -> "extract"
           [] ph = "extract" -> "rename_tmp"
           [] ph = "rename_tmp" -> "combine"
           [] ph = "combine" -> "metadata"
           [] ph = "metadata" -> "remove"
           [] ph = "remove" -> IF dry THEN "summary" ELSE "leave"
    ELSE CASE ph = "tmp" -> "fix"
           [] ph = "fix" -> "extract"
           [] ph = "extract" -> "copy"
           [] ph = "copy" -> "rename_in"
           [] ph = "rename_in" -> "rename_tmp"
           [] ph = "rename_tmp" -> "combine"
           [] ph = "combine" -> "metadata"
           [] ph = "metadata" -> "remove"
           [] ph = "remove" -> IF dry THEN "summary" ELSE "leave"

\* utils.ensure_dir: with the dry flag the folder is only announced
ensure_dir(ds, path, dry_run_flag) ==
    IF dry_run_flag THEN ds ELSE ds \cup {path}

\* entering managed_tmp_dir: with the dry flag the folder is only announced
managed_tmp_dir_enter(ds, path, dry_run_flag) ==
    IF dry_run_flag THEN ds ELSE ds \cup {path}

\* shutil.rmtree(path, ignore_errors=True)
rmtree(fsys, path) == {f \in fsys : ~IsPrefix(path, f.dir)}

\* managed_tmp_dir's try/finally: the directory goes on every exit of the
\* body, whether an exception (exc) travels through it or not
CleansUpUnlessRaised(exc) == ~exc

CleansUp(exc) == TRUE

\* leaving the body of `with managed_tmp_dir(...)`
managed_tmp_dir_exit(exc) ==
    /\ fs' = IF CleansUp(exc) THEN rmtree(fs, Tmp) ELSE fs
    /\ dirs' = IF CleansUp(exc) THEN {d \in dirs : ~IsPrefix(Tmp, d)} ELSE dirs

\* every exception reported as an unexpected error
cli_exit_code_generic(exc) == 1

\* the status cli.main exits with when run_auto raises
cli_exit_code(exc) == IF exc = "interrupt" THEN 130 ELSE 1

\* a `return code` from inside the body of the with statement
ReturnFromBody(code) ==
    /\ managed_tmp_dir_exit(FALSE)
    /\ pc' = "done"
    /\ exit' = code

\* an exception that leaves the body of the with statement and run_auto
RaiseFromBody(exc) ==
    /\ managed_tmp_dir_exit(TRUE)
    /\ pc' = "done"
    /\ exit' = cli_exit_code(exc)

----------------------------------------------------------------------------
(* Start of a run: validation, output folder, download, scratch folder *)

Finish(code) == pc' = "done" /\ exit' = code

InputValid ==
    IF mode = "folder" THEN InDir \in dirs ELSE html \notin {"missing", "empty"}

\* run_auto and the head of run_folder_mode / run_download_mode:
\* validation, then ensure_dir(out) unless the run is dry
Validate ==
    /\ pc = "start"
    /\ \/ /\ ~InputValid
          /\ Finish(2)
          /\ UNCHANGED dirs
       \/ /\ InputValid
          /\ \/ /\ dirs' = IF dry THEN dirs ELSE ensure_dir(dirs, out, FALSE)
                /\ pc' = IF mode = "download" THEN "parse" ELSE "tmp"
                /\ UNCHANGED exit
             \/ /\ ~dry           \* mkdir fails
                /\ Finish(2)
                /\ UNCHANGED dirs
    /\ UNCHANGED <<cfgvars, dl, md, fs, todo, done, plans, counts, stats, passed, tasks,
                   collected, pending, summary>>

\* Downloader.plan(html_path) and the empty-list return
ParseHtml ==
    /\ pc = "parse"
    /\ IF html = "bad" THEN Finish(1)
       ELSE IF items = {} THEN Finish(0)
       ELSE pc' = "download" /\ UNCHANGED exit
    /\ UNCHANGED <<cfgvars, dl, md, fs, dirs, todo, done, plans, counts, stats, passed, tasks,
                   collected, pending, summary>>

DownloadedFile(i) == File(out, <<i.uuid, ".", i.ext>>)

KindCount(S, k) == Cardinality({i \in S : i.kind = k})

\* Downloader.download_all (download.py:122-127): one future per item
DownloadAll ==
    /\ pc = "download"
    /\ ~dry
    /\ LET its == SeqOf(items)
       IN dl' = [i \in 1..Len(its) |->
                    [item |-> its[i], state |-> "queued", tries |-> <<>>]]
    /\ pc' = "download_run"
    /\ UNCHANGED <<cfgvars, md, fs, dirs, exit, todo, done, plans, counts,
                   stats, passed, tasks, collected, pending, summary>>

DlRunning == {i \in 1..Len(dl) : dl[i].state = "running"}

DlFinished(i) == dl[i].state \in {"ok", "failed"}

\* a worker of the executor takes the oldest queued download
DownloadStart(i) ==
    /\ pc \in {"download_run", "download_unwind"}
    /\ dl[i].state = "queued"
    /\ \A j \in 1..(i - 1) : dl[j].state # "queued"
    /\ Cardinality(DlRunning) < DownloadWorkers
    /\ dl' = [dl EXCEPT ![i].state = "running"]
    /\ UNCHANGED <<cfgvars, md, fs, dirs, pc, exit, todo, done, plans, counts,
                   stats, passed, tasks, collected, pending, summary>>

\* download.py:55
max_retries == 3

\* the first failure is final
GivesUp_at_once(attempt) == TRUE

\* download.py:97-100: `if attempt < max_retries - 1: sleep` and the loop
\* goes on, `else: return False, item.kind`; attempt counts from 1 here
GivesUp(attempt) == ~(attempt - 1 < max_retries - 1)

\* one turn of the retry loop of download_item (download.py:56-100): the
\* fetch succeeds and (True, kind) is returned with the file on disk (written
\* now, or found there: line 74), or it raises, before the file was opened
\* or while the body was being written (lines 79-82), and the handler goes
\* on or returns (False, kind)
DownloadAttempt(i) ==
    /\ pc \in {"download_run", "download_unwind"}
    /\ dl[i].state = "running"
    /\ Len(dl[i].tries) < max_retries
    /\ \/ /\ dl' = [dl EXCEPT ![i].state = "ok",
                               ![i].tries = Append(dl[i].tries, TRUE)]
          /\ fs' = fs \cup {DownloadedFile(dl[i].item)}
       \/ /\ dl' = [dl EXCEPT
                       ![i].state = IF GivesUp(Len(dl[i].tries) + 1)
                                    THEN "failed" ELSE "running",
                       ![i].tries = Append(dl[i].tries, FALSE)]
          /\ fs' \in {fs, fs \cup {DownloadedFile(dl[i].item)}}
    /\ UNCHANGED <<cfgvars, md, dirs, pc, exit, todo, done, plans, counts,
                   stats, passed, tasks, collected, pending, summary>>

DlGot(k) ==
    Cardinality({i \in 1..Len(dl) : dl[i].state = "ok" /\ dl[i].item.kind = k})

\* the as_completed loop has seen every future (download.py:130-144); an
\* interrupt leaves the executor after its tasks ended (pipeline.py:107-109)
DownloadAllExit ==
    /\ pc \in {"download_run", "download_unwind"}
    /\ \A i \in 1..Len(dl) : DlFinished(i)
    /\ IF pc = "download_run"
       THEN /\ counts' = [counts EXCEPT !["dl_img"] = DlGot("image"),
                                        !["dl_vid"] = DlGot("video")]
            /\ pc' = "tmp"
            /\ UNCHANGED exit
       ELSE /\ Finish(130)
            /\ UNCHANGED counts
    /\ UNCHANGED <<cfgvars, dl, md, fs, dirs, todo, done, plans, stats, passed, tasks,
                   collected, pending, summary>>

\* the counter `key` was handed n more
Pass(pd, key, n) == [pd EXCEPT ![key] = pd[key] + n]

\* simulator.py:17-24: the two counters are assigned
simulate_download(st, imgs, vids) ==
    [st EXCEPT !["downloaded_images"] = imgs, !["downloaded_videos"] = vids]

\* DryRunSimulator.simulate_download
DryDownload ==
    /\ pc = "download"
    /\ dry
    /\ stats' = simulate_download(stats, KindCount(items, "image"),
                                  KindCount(items, "video"))
    /\ passed' = Pass(Pass(passed, "downloaded_images",
                           KindCount(items, "image")),
                      "downloaded_videos", KindCount(items, "video"))
    /\ counts' = [counts EXCEPT !["dl_img"] = KindCount(items, "image"),
                                !["dl_vid"] = KindCount(items, "video")]
    /\ pc' = "tmp"
    /\ UNCHANGED <<cfgvars, dl, md, fs, dirs, exit, todo, done, plans, tasks,
                   collected, pending, summary>>

\* entering `with managed_tmp_dir(tmp_root, False)`, or in a dry run
\* simulate_create_temp_dir
EnterTmp ==
    /\ pc = "tmp"
    /\ \/ /\ dirs' = IF dry THEN dirs
                     ELSE managed_tmp_dir_enter(dirs, Tmp, FALSE)
          /\ pc' = After("tmp")
          /\ UNCHANGED exit
       \/ /\ ~dry                 \* mkdir fails: caught by the outer handler
          /\ Finish(1)
          /\ UNCHANGED dirs
    /\ UNCHANGED <<cfgvars, dl, md, fs, todo, done, plans, counts, stats, passed, tasks,
                   collected, pending, summary>>

InsideTmp == ~dry /\ Tmp \in dirs

InCombinerRun == pc \in {"combine_submit", "combine_run"}

Unwinding == {"download_unwind", "combine_unwind", "metadata_unwind"}

\* positions of a caller that uses the services directly
SvcPcs ==
    {"svc", "svc_tmp", "svc_zip", "svc_copy", "svc_rename", "svc_combine",
     "svc_leave", "svc_done"}

\* KeyboardInterrupt in the main thread
Interrupt ==
    /\ pc \notin {"done", "sim"} \cup Unwinding \cup SvcPcs
    /\ pending' = "interrupt"
    /\ IF pc = "download"
       THEN /\ Finish(130)        \* pipeline.py:107-109
            /\ UNCHANGED <<fs, dirs>>
       ELSE IF pc = "download_run"
       THEN /\ pc' = "download_unwind"
            /\ UNCHANGED <<fs, dirs, exit>>
       ELSE IF pc = "metadata_run"
       THEN /\ pc' = "metadata_unwind"
            /\ UNCHANGED <<fs, dirs, exit>>
       ELSE IF InCombinerRun
       THEN /\ pc' = "combine_unwind"
            /\ UNCHANGED <<fs, dirs, exit>>
       ELSE IF InsideTmp
       THEN RaiseFromBody("interrupt")
       ELSE /\ Finish(cli_exit_code("interrupt"))
            /\ UNCHANGED <<fs, dirs>>
    /\ UNCHANGED <<cfgvars, dl, md, todo, done, plans, counts, stats, passed, tasks,
                   collected, summary>>

----------------------------------------------------------------------------
(* Real run: archive repair, copy, rename, extraction *)

RunPc(ph) ==
    CASE ph = "copy" -> "copy_run"
      [] ph = "rename_in" -> "rename_in_run"
      [] ph = "extract" -> "extract_run"
      [] ph = "rename_tmp" -> "rename_tmp_run"

\* the service is never run
StartService_skipped(ph, ps) ==
    /\ todo' = ps
    /\ done' = 0
    /\ pc' = After(ph)

\* `if plans:` then the service's run, else straight to the next phase
StartService(ph, ps) ==
    /\ todo' = ps
    /\ done' = 0
    /\ pc' = IF ps = <<>> THEN After(ph) ELSE RunPc(ph)

\* the destination is never looked at
DstTakenIgnored(fsys, dst) == FALSE

\* the test of fs.py:50, `if dst.exists()`
DstTaken(fsys, dst) == dst \in fsys

\* the loop of detect_and_fix_zip_files over folder.iterdir(); for a file of
\* `failing` the open or the rename raises, and the loop goes on
RECURSIVE FixEach(_, _, _, _)
FixEach(fsys, files, fixed, failing) ==
    IF files = <<>> THEN [fs |-> fsys, fixed |-> fixed]
    ELSE LET file == Head(files)
             dst == File(file.dir, with_suffix(file.name, ZIP_EXT))
         IN IF LowerSeq(suffix(file.name)) = ZIP_EXT
                  \/ file \in failing
                  \/ ~HasZipMagic(file.name)
                  \/ DstTaken(fsys, dst)
            THEN FixEach(fsys, Tail(files), fixed, failing)
            ELSE FixEach((fsys \ {file}) \cup {dst}, Tail(files), fixed + 1,
                         failing)

detect_and_fix_zip_files(fsys, folder, failing) ==
    FixEach(fsys, SeqOf({f \in fsys : f.dir = folder}), 0, failing)

\* the files of the folder whose content is an archive and whose name is not
Mislabelled(fsys, folder) ==
    {f \in fsys : /\ f.dir = folder
                  /\ HasZipMagic(f.name)
                  /\ LowerSeq(suffix(f.name)) # ZIP_EXT}

FixZips ==
    /\ pc = "fix"
    /\ ~dry
    /\ \E failing \in SUBSET Mislabelled(fs, Root) :
          LET r == detect_and_fix_zip_files(fs, Root, failing)
          IN /\ fs' = r.fs
             /\ counts' = [counts EXCEPT !["fixed"] = r.fixed]
    /\ pc' = After("fix")
    /\ UNCHANGED <<cfgvars, dl, md, dirs, exit, todo, done, plans, stats, passed, tasks,
                   collected, pending, summary>>

PlanCopy ==
    /\ pc = "copy"
    /\ ~dry
    /\ LET ps == plan_copy_standalone_mp4s(fs, Root, out)
       IN /\ plans' = [plans EXCEPT !["copy"] = ps]
          /\ StartService("copy", ps)
    /\ UNCHANGED <<cfgvars, dl, md, fs, dirs, exit, counts, stats, passed, tasks, collected,
                   pending, summary>>

\* one turn of the loop of CopyService.run (executors.py:66-69); a failing
\* copy2 leaves run as an exception, which the pipeline answers with return 1
CopyItem ==
    /\ pc = "copy_run"
    /\ LET p == Head(todo)
       IN \/ /\ fs' = fs \cup {p.dst}
             /\ dirs' = dirs
             /\ todo' = Tail(todo)
             /\ done' = done + 1
             /\ IF Tail(todo) = <<>>
                THEN /\ counts' = [counts EXCEPT !["copy"] = done + 1]
                     /\ pc' = After("copy")
                ELSE UNCHANGED <<counts, pc>>
             /\ UNCHANGED <<exit, pending>>
          \/ /\ pending' = "error"
             /\ ReturnFromBody(1)
             /\ UNCHANGED <<todo, done, counts>>
    /\ UNCHANGED <<cfgvars, dl, md, plans, stats, passed, tasks, collected, summary>>

PlanRenameInput ==
    /\ pc = "rename_in"
    /\ ~dry
    /\ LET ren1 == plan_unlabeled_renames(fs, Root, out, SkipRoot)
           ren2 == plan_unlabeled_renames(fs, Tmp, Tmp, NoPath)
       IN /\ plans' = IF mode = "folder"
                      THEN [plans EXCEPT !["rename_in"] = ren1]
                      ELSE [plans EXCEPT !["rename_in"] = ren1,
                                         !["rename_tmp"] = ren2]
          /\ StartService("rename_in", ren1)
    /\ UNCHANGED <<cfgvars, dl, md, fs, dirs, exit, counts, stats, passed, tasks, collected,
                   pending, summary>>

\* in folder mode the scratch folder is scanned after the extraction; in
\* download mode ren2 was planned together with ren1
PlanRenameTmp ==
    /\ pc = "rename_tmp"
    /\ ~dry
    /\ LET ps == IF mode = "folder"
                 THEN plan_unlabeled_renames(fs, Tmp, Tmp, NoPath)
                 ELSE plans["rename_tmp"]
       IN /\ plans' = [plans EXCEPT !["rename_tmp"] = ps]
          /\ StartService("rename_tmp", ps)
    /\ UNCHANGED <<cfgvars, dl, md, fs, dirs, exit, counts, stats, passed, tasks, collected,
                   pending, summary>>

\* one turn of the loop of RenameService.run (executors.py:82-88): an
\* OSError is swallowed and the loop goes on
RenameItem ==
    /\ pc \in {"rename_in_run", "rename_tmp_run"}
    /\ LET p == Head(todo)
           ph == IF pc = "rename_in_run" THEN "rename_in" ELSE "rename_tmp"
       IN \E ok \in BOOLEAN :
             LET n == IF ok THEN done + 1 ELSE done
             IN /\ fs' = IF ok THEN fs \cup {p.dst} ELSE fs
                /\ todo' = Tail(todo)
                /\ done' = n
                /\ IF Tail(todo) = <<>>
                   THEN /\ counts' = [counts EXCEPT ![ph] = n]
                        /\ pc' = After(ph)
                   ELSE UNCHANGED <<counts, pc>>
    /\ UNCHANGED <<cfgvars, dl, md, dirs, exit, plans, stats, passed, tasks, collected,
                   pending, summary>>

PlanExtract ==
    /\ pc = "extract"
    /\ ~dry
    /\ LET ps == plan_zip_extractions(fs, Root, Tmp)
       IN /\ plans' = [plans EXCEPT !["extract"] = ps]
          /\ StartService("extract", ps)
    /\ UNCHANGED <<cfgvars, dl, md, fs, dirs, exit, counts, stats, passed, tasks, collected,
                   pending, summary>>

Extracted(p) ==
    {File(p.dest_folder \o e.dir, e.name) : e \in ZipContent(p.zip_path, entries)}

\* one turn of the loop of ZipService.run (executors.py:50-53); an archive
\* that cannot be read leaves run as an exception: return 1 in the pipeline
ExtractItem ==
    /\ pc = "extract_run"
    /\ LET p == Head(todo)
       IN \/ /\ fs' = fs \cup Extracted(p)
             /\ dirs' = dirs
             /\ todo' = Tail(todo)
             /\ done' = done + 1
             /\ IF Tail(todo) = <<>>
                THEN /\ counts' = [counts EXCEPT !["extract"] = done + 1]
                     /\ pc' = After("extract")
                ELSE UNCHANGED <<counts, pc>>
             /\ UNCHANGED <<exit, pending>>
          \/ /\ pending' = "error"
             /\ ReturnFromBody(1)
             /\ UNCHANGED <<todo, done, counts>>
    /\ UNCHANGED <<cfgvars, dl, md, plans, stats, passed, tasks, collected, summary>>

----------------------------------------------------------------------------
(* Real run: composition (CombineService.run), metadata, archive removal *)

PlanCombine ==
    /\ pc = "combine"
    /\ ~dry
    /\ LET ps == plan_filesystem_combinations(fs, Tmp, out)
       IN /\ plans' = [plans EXCEPT !["combine"] = ps]
          /\ pc' = IF ps = <<>> THEN After("combine") ELSE "combine_submit"
    /\ UNCHANGED <<cfgvars, dl, md, fs, dirs, exit, todo, done, counts, stats, passed, tasks,
                   collected, pending, summary>>

PlanFiles(ps) ==
    {ps[i].main_path : i \in 1..Len(ps)} \cup {ps[i].overlay_path : i \in 1..Len(ps)}

\* a file of a plan is no longer there
Vanished == ~(PlanFiles(plans["combine"]) \subseteq fs)

\* between planning and execution something else deletes a planned file
Vanish ==
    /\ pc = "combine_submit"
    /\ ~Vanished
    /\ \E f \in PlanFiles(plans["combine"]) : fs' = fs \ {f}
    /\ UNCHANGED <<cfgvars, dl, md, dirs, pc, exit, todo, done, plans, counts,
                   stats, passed, tasks, collected, pending, summary>>

\* the plans are submitted and run returns without collecting the futures
SubmitAllAndReturn ==
    /\ pc = "combine_submit"
    /\ tasks' = [i \in 1..Len(plans["combine"]) |->
                    [plan |-> plans["combine"][i], state |-> "queued",
                     missing |-> FALSE]]
    /\ collected' = {}
    /\ done' = 0
    /\ pc' = After("combine")
    /\ UNCHANGED <<cfgvars, dl, md, fs, dirs, exit, todo, plans, counts, stats, passed,
                   pending, summary>>

\* executors.py:277-296: every image and every video plan is submitted
SubmitAll ==
    /\ pc = "combine_submit"
    /\ tasks' = [i \in 1..Len(plans["combine"]) |->
                    [plan |-> plans["combine"][i], state |-> "queued",
                     missing |-> FALSE]]
    /\ collected' = {}
    /\ done' = 0
    /\ pc' = "combine_run"
    /\ UNCHANGED <<cfgvars, dl, md, fs, dirs, exit, todo, plans, counts, stats, passed,
                   pending, summary>>

Max(a, b) == IF a >= b THEN a ELSE b

\* a pool that takes every task at once
PoolSizeUnbounded(kind) == Len(tasks)

\* max_workers of the pool a plan of this kind is submitted to
PoolSize(kind) ==
    IF kind = "image" THEN Max(1, ImageWorkers) ELSE Max(1, VideoWorkers)

Running(kind) ==
    {i \in 1..Len(tasks) :
        tasks[i].plan.kind = kind /\ tasks[i].state = "running"}

Finished(i) == tasks[i].state \in {"ok", "raised"}

\* a worker of the pool takes the oldest queued task of its kind
TaskStart(i) ==
    /\ pc \in {"combine_run", "combine_unwind"}
    /\ tasks[i].state = "queued"
    /\ \A j \in 1..(i - 1) :
          tasks[j].plan.kind = tasks[i].plan.kind => tasks[j].state # "queued"
    /\ Cardinality(Running(tasks[i].plan.kind)) < PoolSize(tasks[i].plan.kind)
    /\ tasks' = [tasks EXCEPT ![i].state = "running"]
    /\ UNCHANGED <<cfgvars, dl, md, fs, dirs, pc, exit, todo, done, plans, counts,
                   stats, passed, collected, pending, summary>>

\* combine_image / combine_video: with the dry flag the composition is only
\* announced, else out_path is written
combine_one(fsys, p, dry_flag) ==
    IF dry_flag THEN fsys ELSE fsys \cup {p.out_path}

\* executors.py:126-127, 186-190, 199-200: the files of the plan are opened
StillThere(fsys, p) == p.main_path \in fsys /\ p.overlay_path \in fsys

\* combine_image / combine_video returns, having written out_path, or
\* raises; it raises when a file of the plan cannot be opened
TaskFinish(i) ==
    /\ pc \in {"combine_run", "combine_unwind"}
    /\ tasks[i].state = "running"
    /\ \/ /\ StillThere(fs, tasks[i].plan)
          /\ tasks' = [tasks EXCEPT ![i].state = "ok"]
          /\ fs' = combine_one(fs, tasks[i].plan, FALSE)
       \/ /\ tasks' = [tasks EXCEPT
                          ![i].state = "raised",
                          ![i].missing = ~StillThere(fs, tasks[i].plan)]
          /\ fs' = fs
    /\ UNCHANGED <<cfgvars, dl, md, dirs, pc, exit, todo, done, plans, counts,
                   stats, passed, collected, pending, summary>>

\* the outcome of a future is never re-raised
ResultRaisesNever(state) == FALSE

\* what f.result() does with the outcome of a future (executors.py:298-301)
ResultRaises(state) == state = "raised"

\* one turn of `for f in as_completed(futures)`
Collect(i) ==
    /\ pc = "combine_run"
    /\ Finished(i)
    /\ i \notin collected
    /\ collected' = collected \cup {i}
    /\ done' = done + 1          \* `finally: bar.update(1)`
    /\ IF ResultRaises(tasks[i].state)
       THEN pending' = "error" /\ pc' = "combine_unwind"
       ELSE /\ pending' = pending
            /\ pc' = IF collected' = 1..Len(tasks)
                     THEN "combine_unwind" ELSE pc
    /\ UNCHANGED <<cfgvars, dl, md, fs, dirs, exit, todo, plans, counts, stats, passed,
                   tasks, summary>>

\* the tasks that did not start yet are dropped when the blocks are left
PoolsJoined_cancelling ==
    \A i \in 1..Len(tasks) : Finished(i) \/ tasks[i].state = "queued"

\* leaving the two `with ThreadPoolExecutor(...)` blocks waits for every
\* submitted task (shutdown(wait=True))
PoolsJoined == \A i \in 1..Len(tasks) : Finished(i)

CountKind(ps, k) == Cardinality({i \in 1..Len(ps) : ps[i].kind = k})

\* the end of CombineService.run and what pipeline.py:450-462 does with it
CombineExit ==
    /\ pc = "combine_unwind"
    /\ PoolsJoined
    /\ IF pending = "none"
       THEN /\ counts' = [counts EXCEPT
                             !["img"] = CountKind(plans["combine"], "image"),
                             !["vid"] = CountKind(plans["combine"], "video")]
            /\ pc' = After("combine")
            /\ UNCHANGED <<fs, dirs, exit>>
       ELSE /\ ReturnFromBody(IF pending = "interrupt" THEN 130 ELSE 1)
            /\ UNCHANGED counts
    /\ UNCHANGED <<cfgvars, dl, md, todo, done, plans, stats, passed, tasks, collected,
                   pending, summary>>

\* tokens that stand for a 36-character identifier ([0-9a-fA-F-]{36})
IsUuid(tok) == tok \in {"a1", "b2", "c3", "d4", "e5", "f6", "u1", "u2", "u3", "z9"}

Record(u, k) == [uuid |-> u, kind |-> k]

\* the records of the HTML given with --metadata in folder mode
FolderRecords ==
    {Record("c3", "image"), Record("e5", "video"), Record("z9", "image")}

\* parse_memories_html: in download mode the rows are those of the items
parse_memories_html ==
    IF mode = "download"
    THEN {Record(i.uuid, i.kind) : i \in items}
    ELSE FolderRecords

\* metadata.py:587-592: the lower-cased name matches
\* ([0-9a-fA-F-]{36})(?:_combined)?\.(jpg|png|mp4)$
MetaMatch(n) ==
    LET l == LowerSeq(n)
    IN /\ Len(l) \in {3, 4}
       /\ IsUuid(l[1])
       /\ Len(l) = 4 => l[2] = "_combined"
       /\ l[Len(l) - 1] = "."
       /\ l[Len(l)] \in {"jpg", "png", "mp4"}

\* metadata.py:583-596: the files of the output tree with a matching name
\* whose identifier has a record
files_to_process(fsys, output_folder, meta) ==
    SeqOf({f \in fsys : /\ IsPrefix(output_folder, f.dir)
                        /\ MetaMatch(f.name)
                        /\ \E r \in meta : r.uuid = LowerSeq(f.name)[1]})

\* the metadata phase of a real run: skipped without the HTML, else
\* parse_memories_html and the head of apply_metadata_to_outputs
Metadata ==
    /\ pc = "metadata"
    /\ ~dry
    /\ IF html # "ok"
       THEN /\ pc' = After("metadata")
            /\ UNCHANGED <<md, counts>>
       ELSE LET fl == files_to_process(fs, out, parse_memories_html)
            IN IF fl = <<>>
               THEN /\ counts' = [counts EXCEPT !["img_tag"] = 0,
                                                !["vid_tag"] = 0]
                    /\ pc' = After("metadata")
                    /\ UNCHANGED md
               ELSE /\ md' = [i \in 1..Len(fl) |->
                                 [file |-> fl[i],
                                  ext |-> Lower(fl[i].name[Len(fl[i].name)]),
                                  state |-> "queued", log |-> <<>>]]
                    /\ pc' = "metadata_run"
                    /\ UNCHANGED counts
    /\ UNCHANGED <<cfgvars, dl, fs, dirs, exit, todo, done, plans, stats, passed,
                   tasks, collected, pending, summary>>

MdRunning == {i \in 1..Len(md) : md[i].state = "running"}

MdFinished(i) == md[i].state \in {"tagged", "untagged", "raised"}

\* a worker of the executor takes the oldest queued file
MetadataStart(i) ==
    /\ pc \in {"metadata_run", "metadata_unwind"}
    /\ md[i].state = "queued"
    /\ \A j \in 1..(i - 1) : md[j].state # "queued"
    /\ Cardinality(MdRunning) < MetadataWorkers
    /\ md' = [md EXCEPT ![i].state = "running"]
    /\ UNCHANGED <<cfgvars, dl, fs, dirs, pc, exit, todo, done, plans, counts,
                   stats, passed, tasks, collected, pending, summary>>

\* identifiers whose image data is PNG-encoded whatever the file is called
PngEncoded == {"z9", "u3"}

\* Image.open(p).format (metadata.py:474-477)
ImageFormat(n) ==
    IF n[1] \in PngEncoded \/ Lower(n[Len(n)]) = "png" THEN "PNG" ELSE "JPEG"

\* one call a metadata task made: the writer, the path and what it returned
MdOp(op, path, ok) == [op |-> op, path |-> path, ok |-> ok]

\* what the environment answers to the calls of one task: whether each
\* writer, the conversion and the unlink succeed, and whether p.stat() and
\* the handler's exists() are refused (the task raises)
MdEnvs(ext) ==
    IF ext = "mp4"
    THEN {[exiftool |-> a, ffmpeg |-> b, conv |-> TRUE, exif |-> TRUE,
           unlink |-> TRUE, text |-> TRUE, raises |-> FALSE] :
              a \in BOOLEAN, b \in BOOLEAN}
    ELSE {[exiftool |-> TRUE, ffmpeg |-> TRUE, conv |-> c, exif |-> x,
           unlink |-> u, text |-> t, raises |-> r] :
              c \in BOOLEAN, x \in BOOLEAN, u \in BOOLEAN, t \in BOOLEAN,
              r \in BOOLEAN}

\* the fallback writer runs whatever the first writer returned
ffmpeg_invoked_always(exiftool_ok) == TRUE

\* metadata.py:563-570: `if write_mp4_metadata_exiftool(...) ... elif
\* write_mp4_metadata_ffmpeg(...)`
ffmpeg_invoked(exiftool_ok) == ~exiftool_ok

\* _set_file_times(path, dt): touch and utime
set_file_times(path) == <<MdOp("utime", path, TRUE)>>

\* the mp4 branch of _process_single_file_metadata (metadata.py:561-571)
ProcessMp4(fsys, p, e) ==
    LET fallback == ffmpeg_invoked(e.exiftool)
    IN [fs |-> fsys,
        tagged |-> e.exiftool \/ (fallback /\ e.ffmpeg),
        log |-> <<MdOp("exiftool", p, e.exiftool)>>
                  \o (IF fallback THEN <<MdOp("ffmpeg", p, e.ffmpeg)>> ELSE <<>>)
                  \o set_file_times(p)]

\* write_png_text_metadata refuses a path whose suffix is .jpg or .jpeg
\* (metadata.py:323-324)
write_png_text_metadata(p, ok) ==
    IF LowerSeq(suffix(p.name)) \in {<<".", "jpg">>, <<".", "jpeg">>}
    THEN FALSE ELSE ok

\* p.parent / f"{p.stem}.jpg" (metadata.py:487-488)
JpegPathOf(p) == File(p.dir, stem(p.name) \o <<".", "jpg">>)

\* the image branch of _process_single_file_metadata (metadata.py:466-548)
ProcessImage(fsys, p, e) ==
    IF ImageFormat(p.name) = "JPEG"
    THEN [fs |-> fsys, tagged |-> e.exif,
          log |-> <<MdOp("exif", p, e.exif)>> \o set_file_times(p)]
    ELSE LET jpeg_path == JpegPathOf(p)
         IN IF e.conv
            THEN LET fs1 == fsys \cup {jpeg_path}
                     converted == e.exif /\ e.unlink
                     fs2 == IF converted THEN fs1 \ {p} ELSE fs1
                     processed_path == IF converted THEN jpeg_path ELSE p
                 IN [fs |-> fs2, tagged |-> e.exif,
                     log |-> <<MdOp("convert", jpeg_path, TRUE),
                               MdOp("exif", jpeg_path, e.exif)>>
                             \o (IF e.exif THEN <<MdOp("unlink", p, e.unlink)>>
                                 ELSE <<>>)
                             \o (IF processed_path \in fs2
                                 THEN set_file_times(processed_path)
                                 ELSE <<>>)]
            ELSE LET t == write_png_text_metadata(p, e.text)
                 IN [fs |-> fsys, tagged |-> t,
                     log |-> <<MdOp("convert", jpeg_path, FALSE),
                               MdOp("text", p, t)>> \o set_file_times(p)]

process_single_file_metadata(fsys, p, ext, e) ==
    IF ext = "mp4" THEN ProcessMp4(fsys, p, e) ELSE ProcessImage(fsys, p, e)

\* _process_single_file_metadata returns with the file tagged, returns
\* without (no writer succeeded), or raises before it wrote anything
MetadataFinish(i) ==
    /\ pc \in {"metadata_run", "metadata_unwind"}
    /\ md[i].state = "running"
    /\ \E e \in MdEnvs(md[i].ext) :
          IF e.raises
          THEN /\ md' = [md EXCEPT ![i].state = "raised"]
               /\ fs' = fs
          ELSE LET r == process_single_file_metadata(fs, md[i].file,
                                                     md[i].ext, e)
               IN /\ md' = [md EXCEPT
                               ![i].state = IF r.tagged THEN "tagged"
                                            ELSE "untagged",
                               ![i].log = r.log]
                  /\ fs' = r.fs
    /\ UNCHANGED <<cfgvars, dl, dirs, pc, exit, todo, done, plans, counts,
                   stats, passed, tasks, collected, pending, summary>>

\* the exception of a future leaves the loop
MdResultRaisesAny(state) == state = "raised"

\* metadata.py:610-618: the exception of a future is caught and logged
MdResultRaises(state) == FALSE

MdTagged(exts) ==
    Cardinality({i \in 1..Len(md) : md[i].state = "tagged" /\ md[i].ext \in exts})

\* the as_completed loop has seen every future and the function returns its
\* counts (an exception would end as the warning of pipeline.py:477-478);
\* an interrupt leaves the executor after its tasks ended
MetadataExit ==
    /\ pc \in {"metadata_run", "metadata_unwind"}
    /\ \A i \in 1..Len(md) : MdFinished(i)
    /\ IF pc = "metadata_unwind"
       THEN /\ RaiseFromBody("interrupt")
            /\ UNCHANGED counts
       ELSE /\ pc' = After("metadata")
            /\ counts' = IF \E i \in 1..Len(md) : MdResultRaises(md[i].state)
                          THEN counts
                          ELSE [counts EXCEPT
                                   !["img_tag"] = MdTagged({"jpg", "png"}),
                                   !["vid_tag"] = MdTagged({"mp4"})]
            /\ UNCHANGED <<fs, dirs, exit>>
    /\ UNCHANGED <<cfgvars, dl, md, todo, done, plans, stats, passed, tasks,
                   collected, pending, summary>>

\* pipeline.py:481-491: unlink every top-level archive; a failing unlink is
\* a warning
RemoveZips ==
    /\ pc = "remove"
    /\ ~dry
    /\ LET zip_files == Range(find_zip_files_top_level(fs, Root))
       IN \E kept \in SUBSET zip_files :
             /\ fs' = fs \ (zip_files \ kept)
             /\ counts' = [counts EXCEPT
                              !["removed"] = Cardinality(zip_files \ kept)]
    /\ pc' = After("remove")
    /\ UNCHANGED <<cfgvars, dl, md, dirs, exit, todo, done, plans, stats, passed, tasks,
                   collected, pending, summary>>

\* the body of the with statement ends
LeaveTmp ==
    /\ pc = "leave"
    /\ managed_tmp_dir_exit(FALSE)
    /\ pc' = "summary"
    /\ UNCHANGED <<cfgvars, dl, md, exit, todo, done, plans, counts, stats, passed, tasks,
                   collected, pending, summary>>

\* the summary lines and `return 0`
Summary ==
    /\ pc = "summary"
    /\ summary' = TRUE
    /\ Finish(0)
    /\ UNCHANGED <<cfgvars, dl, md, fs, dirs, todo, done, plans, counts, stats, passed, tasks,
                   collected, pending>>

----------------------------------------------------------------------------
(* Dry run: the planner on the untouched filesystem, then DryRunSimulator *)

\* `if plans: self.stats[key] = len(plans)`
SetIfAny(st, key, ps) == IF ps = <<>> THEN st ELSE [st EXCEPT ![key] = Len(ps)]

\* simulator.py:34-38: `if count > 0: self.stats["fixed_zips"] = count`
simulate_fix_zip_files(st, count) ==
    IF count > 0 THEN [st EXCEPT !["fixed_zips"] = count] ELSE st

\* simulator.py:40-46
simulate_extract_zips(st, ps) == SetIfAny(st, "extracted_zips", ps)

\* simulator.py:48-54
simulate_copy_mp4s(st, ps) == SetIfAny(st, "copied_mp4s", ps)

\* simulator.py:56-62: the one counter that is added to
simulate_rename_files(st, ps) ==
    IF ps = <<>> THEN st
    ELSE [st EXCEPT !["renamed_files"] = st["renamed_files"] + Len(ps)]

\* simulator.py:109-115
simulate_remove_zips(st, zip_files) == SetIfAny(st, "removed_zips", zip_files)

\* pipeline.py:124-130 reports every planned archive as one to repair
DryFixZips ==
    /\ pc = "fix"
    /\ dry
    /\ LET n == Len(plan_zip_extractions(fs, Root, Tmp))
       IN /\ stats' = simulate_fix_zip_files(stats, n)
          /\ passed' = Pass(passed, "fixed_zips", n)
    /\ pc' = After("fix")
    /\ UNCHANGED <<cfgvars, dl, md, fs, dirs, exit, todo, done, plans, counts, tasks,
                   collected, pending, summary>>

\* simulate_copy_mp4s
DryCopy ==
    /\ pc = "copy"
    /\ dry
    /\ LET ps == plan_copy_standalone_mp4s(fs, Root, out)
       IN /\ plans' = [plans EXCEPT !["copy"] = ps]
          /\ stats' = simulate_copy_mp4s(stats, ps)
          /\ passed' = Pass(passed, "copied_mp4s", Len(ps))
    /\ pc' = After("copy")
    /\ UNCHANGED <<cfgvars, dl, md, fs, dirs, exit, todo, done, counts, tasks,
                   collected, pending, summary>>

\* simulate_rename_files, for the input tree and for the scratch folder
DryRename ==
    /\ pc \in {"rename_in", "rename_tmp"}
    /\ dry
    /\ LET ps == IF pc = "rename_in"
                 THEN plan_unlabeled_renames(fs, Root, out, SkipRoot)
                 ELSE plan_unlabeled_renames(fs, Tmp, Tmp, NoPath)
       IN /\ plans' = [plans EXCEPT ![pc] = ps]
          /\ stats' = simulate_rename_files(stats, ps)
          /\ passed' = Pass(passed, "renamed_files", Len(ps))
    /\ pc' = After(pc)
    /\ UNCHANGED <<cfgvars, dl, md, fs, dirs, exit, todo, done, counts, tasks,
                   collected, pending, summary>>

\* simulate_extract_zips
DryExtract ==
    /\ pc = "extract"
    /\ dry
    /\ LET ps == plan_zip_extractions(fs, Root, Tmp)
       IN /\ plans' = [plans EXCEPT !["extract"] = ps]
          /\ stats' = simulate_extract_zips(stats, ps)
          /\ passed' = Pass(passed, "extracted_zips", Len(ps))
    /\ pc' = After("extract")
    /\ UNCHANGED <<cfgvars, dl, md, fs, dirs, exit, todo, done, counts, tasks,
                   collected, pending, summary>>

\* simulator.py:64-89: nothing is touched for an empty list
simulate_combine_files(st, ps) ==
    IF ps = <<>> THEN st
    ELSE [st EXCEPT !["combined_images"] = CountKind(ps, "image"),
                    !["combined_videos"] = CountKind(ps, "video")]

\* simulate_combine_files on the plans of the scratch folder
DryCombine ==
    /\ pc = "combine"
    /\ dry
    /\ LET ps == plan_filesystem_combinations(fs, Tmp, out)
       IN /\ plans' = [plans EXCEPT !["combine"] = ps]
          /\ stats' = simulate_combine_files(stats, ps)
          /\ passed' = Pass(Pass(passed, "combined_images",
                                 CountKind(ps, "image")),
                            "combined_videos", CountKind(ps, "video"))
          /\ IF ps = <<>> THEN UNCHANGED counts
             ELSE counts' = [counts EXCEPT
                      !["img"] = CountKind(ps, "image"),
                      !["vid"] = CountKind(ps, "video")]
    /\ pc' = After("combine")
    /\ UNCHANGED <<cfgvars, dl, md, fs, dirs, exit, todo, done, tasks, collected,
                   pending, summary>>

RecordCount(meta, k) == Cardinality({r \in meta : r.kind = k})

\* simulator.py:91-107: the number of records of each kind
simulate_apply_metadata(meta) ==
    [img |-> RecordCount(meta, "image"), vid |-> RecordCount(meta, "video")]

\* the metadata phase of a dry run
DryMetadata ==
    /\ pc = "metadata"
    /\ dry
    /\ IF html # "ok" THEN UNCHANGED counts
       ELSE LET r == simulate_apply_metadata(parse_memories_html)
            IN counts' = [counts EXCEPT !["img_tag"] = r.img,
                                        !["vid_tag"] = r.vid]
    /\ pc' = After("metadata")
    /\ UNCHANGED <<cfgvars, dl, md, fs, dirs, exit, todo, done, plans, stats, passed,
                   tasks, collected, pending, summary>>

\* simulate_remove_zips
DryRemoveZips ==
    /\ pc = "remove"
    /\ dry
    /\ LET zip_files == find_zip_files_top_level(fs, Root)
       IN /\ stats' = simulate_remove_zips(stats, zip_files)
          /\ passed' = Pass(passed, "removed_zips", Len(zip_files))
    /\ pc' = After("remove")
    /\ UNCHANGED <<cfgvars, dl, md, fs, dirs, exit, todo, done, plans, counts, tasks,
                   collected, pending, summary>>

----------------------------------------------------------------------------
(* The services and helpers called with dry_run = True, one after the other *)

SvcVars == <<cfgvars, dl, md, exit, todo, done, stats, passed, tasks,
             collected, pending, summary>>

\* the archive is extracted whatever the flag says
ZipService_run_anyway(fsys, ps, dry_run) ==
    [fs |-> fsys \cup UNION {Extracted(ps[i]) : i \in 1..Len(ps)},
     ret |-> Len(ps)]

\* ZipService.run when no archive fails (executors.py:40-54)
ZipService_run(fsys, ps, dry_run) ==
    IF ps = <<>> THEN [fs |-> fsys, ret |-> 0]
    ELSE IF dry_run THEN [fs |-> fsys, ret |-> 0]
    ELSE [fs |-> fsys \cup UNION {Extracted(ps[i]) : i \in 1..Len(ps)},
          ret |-> Len(ps)]

\* CopyService.run when no copy fails (executors.py:58-70)
CopyService_run(fsys, ps, dry_run) ==
    IF ps = <<>> THEN [fs |-> fsys, ret |-> 0]
    ELSE IF dry_run THEN [fs |-> fsys, ret |-> Len(ps)]
    ELSE [fs |-> fsys \cup {ps[i].dst : i \in 1..Len(ps)}, ret |-> Len(ps)]

\* RenameService.run when no copy fails (executors.py:74-89)
RenameService_run(fsys, ps, dry_run) ==
    IF ps = <<>> THEN [fs |-> fsys, ret |-> 0]
    ELSE IF dry_run THEN [fs |-> fsys, ret |-> Len(ps)]
    ELSE [fs |-> fsys \cup {ps[i].dst : i \in 1..Len(ps)}, ret |-> Len(ps)]

RECURSIVE CombineEach(_, _, _)
CombineEach(fsys, ps, dry_flag) ==
    IF ps = <<>> THEN fsys
    ELSE CombineEach(combine_one(fsys, Head(ps), dry_flag), Tail(ps), dry_flag)

\* the dry branch of CombineService.run (executors.py:261-271)
CombineService_run_dry(fsys, ps) ==
    [fs |-> CombineEach(fsys, ps, TRUE),
     img |-> CountKind(ps, "image"), vid |-> CountKind(ps, "video")]

SvcEnsureDir ==
    /\ pc = "svc"
    /\ dirs' = ensure_dir(dirs, out, dry)
    /\ pc' = "svc_tmp"
    /\ UNCHANGED <<SvcVars, fs, plans, counts>>

SvcEnterTmp ==
    /\ pc = "svc_tmp"
    /\ dirs' = managed_tmp_dir_enter(dirs, Tmp, dry)
    /\ pc' = "svc_zip"
    /\ UNCHANGED <<SvcVars, fs, plans, counts>>

SvcZip ==
    /\ pc = "svc_zip"
    /\ LET ps == plan_zip_extractions(fs, InDir, Tmp)
           r == ZipService_run(fs, ps, dry)
       IN /\ plans' = [plans EXCEPT !["extract"] = ps]
          /\ fs' = r.fs
          /\ counts' = [counts EXCEPT !["extract"] = r.ret]
    /\ pc' = "svc_copy"
    /\ UNCHANGED <<SvcVars, dirs>>

SvcCopy ==
    /\ pc = "svc_copy"
    /\ LET ps == plan_copy_standalone_mp4s(fs, InDir, out)
           r == CopyService_run(fs, ps, dry)
       IN /\ plans' = [plans EXCEPT !["copy"] = ps]
          /\ fs' = r.fs
          /\ counts' = [counts EXCEPT !["copy"] = r.ret]
    /\ pc' = "svc_rename"
    /\ UNCHANGED <<SvcVars, dirs>>

SvcRename ==
    /\ pc = "svc_rename"
    /\ LET ps == plan_unlabeled_renames(fs, InDir, out, SkipRoot)
           r == RenameService_run(fs, ps, dry)
       IN /\ plans' = [plans EXCEPT !["rename_in"] = ps]
          /\ fs' = r.fs
          /\ counts' = [counts EXCEPT !["rename_in"] = r.ret]
    /\ pc' = "svc_combine"
    /\ UNCHANGED <<SvcVars, dirs>>

SvcCombine ==
    /\ pc = "svc_combine"
    /\ LET ps == plan_filesystem_combinations(fs, InDir, out)
           r == CombineService_run_dry(fs, ps)
       IN /\ plans' = [plans EXCEPT !["combine"] = ps]
          /\ fs' = r.fs
          /\ counts' = [counts EXCEPT !["img"] = r.img, !["vid"] = r.vid]
    /\ pc' = "svc_leave"
    /\ UNCHANGED <<SvcVars, dirs>>

\* leaving managed_tmp_dir(path, True): nothing was created, nothing is removed
SvcLeaveTmp ==
    /\ pc = "svc_leave"
    /\ pc' = "svc_done"
    /\ UNCHANGED <<SvcVars, fs, dirs, plans, counts>>

----------------------------------------------------------------------------
(* A DryRunSimulator object whose simulate_* methods are called directly, *)
(* in any order and any number of times                                    *)

SimVars == <<cfgvars, dl, md, fs, dirs, pc, exit, todo, done, plans, counts,
             tasks, collected, pending, summary>>

RECURSIVE SumOver(_, _)
SumOver(f, S) ==
    IF S = {} THEN 0
    ELSE LET k == CHOOSE x \in S : TRUE IN f[k] + SumOver(f, S \ {k})

\* the caller hands n more plans or items to the object
CanPass(n) == SumOver(passed, StatKeys) + n <= MaxPassed

\* the lists of at most MaxPlans copies of one plan
ListsOf(x) == {[i \in 1..n |-> x] : n \in 0..MaxPlans}

SomeExtractPlan == ExtractZipPlan(ExportZip, Tmp)

SomeCopyPlan == CopyPlan(LooseMp4, File(out, LooseMp4.name))

SomeRenamePlan == RenamePlan(NoExt1, File(out, <<"noext1", ".", "jpg">>))

SomeCombinePlans ==
    {<<>>,
     <<CombinePlan(A1Main, A1Overlay, File(out, <<"a1", ".", "jpg">>), "image")>>,
     <<CombinePlan(B2Main, A1Overlay, File(out, <<"b2", ".", "mp4">>), "video")>>,
     <<CombinePlan(A1Main, A1Overlay, File(out, <<"a1", ".", "jpg">>), "image"),
       CombinePlan(B2Main, A1Overlay, File(out, <<"b2", ".", "mp4">>), "video")>>}

SimDownload ==
    /\ pc = "sim"
    /\ \E its \in SUBSET ItemUniverse :
          /\ Cardinality(its) <= MaxPlans
          /\ CanPass(Cardinality(its))
          /\ stats' = simulate_download(stats, KindCount(its, "image"),
                                        KindCount(its, "video"))
          /\ passed' = Pass(Pass(passed, "downloaded_images",
                                 KindCount(its, "image")),
                            "downloaded_videos", KindCount(its, "video"))
    /\ UNCHANGED SimVars

SimFixZips ==
    /\ pc = "sim"
    /\ \E count \in 0..MaxPlans :
          /\ CanPass(count)
          /\ stats' = simulate_fix_zip_files(stats, count)
          /\ passed' = Pass(passed, "fixed_zips", count)
    /\ UNCHANGED SimVars

SimExtract ==
    /\ pc = "sim"
    /\ \E ps \in ListsOf(SomeExtractPlan) :
          /\ CanPass(Len(ps))
          /\ stats' = simulate_extract_zips(stats, ps)
          /\ passed' = Pass(passed, "extracted_zips", Len(ps))
    /\ UNCHANGED SimVars

SimCopy ==
    /\ pc = "sim"
    /\ \E ps \in ListsOf(SomeCopyPlan) :
          /\ CanPass(Len(ps))
          /\ stats' = simulate_copy_mp4s(stats, ps)
          /\ passed' = Pass(passed, "copied_mp4s", Len(ps))
    /\ UNCHANGED SimVars

SimRename ==
    /\ pc = "sim"
    /\ \E ps \in ListsOf(SomeRenamePlan) :
          /\ CanPass(Len(ps))
          /\ stats' = simulate_rename_files(stats, ps)
          /\ passed' = Pass(passed, "renamed_files", Len(ps))
    /\ UNCHANGED SimVars

SimCombine ==
    /\ pc = "sim"
    /\ \E ps \in SomeCombinePlans :
          /\ CanPass(Len(ps))
          /\ stats' = simulate_combine_files(stats, ps)
          /\ passed' = Pass(Pass(passed, "combined_images",
                                 CountKind(ps, "image")),
                            "combined_videos", CountKind(ps, "video"))
    /\ UNCHANGED SimVars

SimRemoveZips ==
    /\ pc = "sim"
    /\ \E zs \in ListsOf(ExportZip) :
          /\ CanPass(Len(zs))
          /\ stats' = simulate_remove_zips(stats, zs)
          /\ passed' = Pass(passed, "removed_zips", Len(zs))
    /\ UNCHANGED SimVars

----------------------------------------------------------------------------

Next ==
    \/ Validate
    \/ ParseHtml
    \/ DownloadAll
    \/ \E i \in 1..Len(dl) : DownloadStart(i)
    \/ \E i \in 1..Len(dl) : DownloadAttempt(i)
    \/ DownloadAllExit
    \/ DryDownload
    \/ EnterTmp
    \/ Interrupt
    \/ FixZips
    \/ PlanCopy
    \/ CopyItem
    \/ PlanRenameInput
    \/ PlanRenameTmp
    \/ RenameItem
    \/ PlanExtract
    \/ ExtractItem
    \/ PlanCombine
    \/ Vanish
    \/ SubmitAll
    \/ \E i \in 1..Len(tasks) : TaskStart(i)
    \/ \E i \in 1..Len(tasks) : TaskFinish(i)
    \/ \E i \in 1..Len(tasks) : Collect(i)
    \/ CombineExit
    \/ Metadata
    \/ \E i \in 1..Len(md) : MetadataStart(i)
    \/ \E i \in 1..Len(md) : MetadataFinish(i)
    \/ MetadataExit
    \/ RemoveZips
    \/ LeaveTmp
    \/ Summary
    \/ DryFixZips
    \/ DryCopy
    \/ DryRename
    \/ DryExtract
    \/ DryCombine
    \/ DryMetadata
    \/ DryRemoveZips
    \/ SvcEnsureDir
    \/ SvcEnterTmp
    \/ SvcZip
    \/ SvcCopy
    \/ SvcRename
    \/ SvcCombine
    \/ SvcLeaveTmp
    \/ SimDownload
    \/ SimFixZips
    \/ SimExtract
    \/ SimCopy
    \/ SimRename
    \/ SimCombine
    \/ SimRemoveZips

Spec == Init /\ [][Next]_vars

----------------------------------------------------------------------------
(* Properties *)

Real == ~dry

Ended == pc = "done"

\* the combine plans have been built and the scratch folder still stands
CombinePlanned ==
    /\ Real
    /\ ~Vanished
    /\ pc \in {"combine_submit", "combine_run", "combine_unwind", "metadata",
               "remove", "leave"}

MainsUnderTmp == {f \in fs : IsPrefix(Tmp, f.dir) /\ Contains(f.name, <<"-main", ".">>)}

PlansOfMain(m) ==
    {i \in 1..Len(plans["combine"]) : plans["combine"][i].main_path = m}

OverlayExists(m) ==
    File(m.dir, RemoveMain(stem(m.name)) \o <<"-overlay", ".", "png">>) \in fs

KnownKind(m) ==
    LowerSeq(suffix(m.name)) \in
        {<<".", "jpg">>, <<".", "jpeg">>, <<".", "png">>, <<".", "mp4">>}

\* C1, as stated: plan_filesystem_combinations returns exactly one plan for
\* every main file whose overlay exists in the same directory and none for
\* a main file without one.
C1_PlanIffOverlay ==
    CombinePlanned =>
        \A m \in MainsUnderTmp :
            Cardinality(PlansOfMain(m)) = IF OverlayExists(m) THEN 1 ELSE 0

\* C1, amended: exactly one plan for every main file whose overlay exists in
\* the same directory and whose lower-cased extension is .jpg, .jpeg, .png
\* or .mp4; none for every other main file.
C1_PlanIffOverlayAndKind ==
    CombinePlanned =>
        \A m \in MainsUnderTmp :
            Cardinality(PlansOfMain(m)) =
                IF OverlayExists(m) /\ KnownKind(m) THEN 1 ELSE 0

C1_Witness ==
    /\ CombinePlanned
    /\ Len(plans["combine"]) = 2
    /\ \E m \in MainsUnderTmp : OverlayExists(m) /\ ~KnownKind(m)
    /\ \E m \in MainsUnderTmp :
          OverlayExists(m) /\ suffix(m.name) = <<".", "MP4">>

Returned(k) == IF counts[k] = NotRun THEN 0 ELSE counts[k]

\* every plan of a rename service that ran was carried out
NoRenameFailed ==
    /\ counts["rename_in"] \in {NotRun, Len(plans["rename_in"])}
    /\ counts["rename_tmp"] \in {NotRun, Len(plans["rename_tmp"])}

DryCombinePlans == plan_filesystem_combinations(fs0, Tmp, out)

DryRenamed ==
    Len(plan_unlabeled_renames(fs0, InDir, out, SkipRoot))
      + Len(plan_unlabeled_renames(fs0, Tmp, Tmp, NoPath))

\* C2: for the same snapshot, the counts of a dry folder-mode run for the
\* composition phase (images, videos) and the rename phase equal the counts
\* of the real run.
C2_DryCountsEqualReal ==
    (mode = "folder" /\ Real /\ Ended /\ exit = 0 /\ NoRenameFailed) =>
        /\ Returned("img") = CountKind(DryCombinePlans, "image")
        /\ Returned("vid") = CountKind(DryCombinePlans, "video")
        /\ Returned("rename_in") + Returned("rename_tmp") = DryRenamed

AnyRaised == \E i \in 1..Len(tasks) : tasks[i].state = "raised"

\* C3: once a composition task has raised, CombineService.run returns no
\* counts, no later phase is entered, and the run ends with a non-zero status.
C3_TaskFailureFailsRun ==
    AnyRaised =>
        /\ counts["img"] = NotRun /\ counts["vid"] = NotRun
        /\ pc \in {"combine_run", "combine_unwind", "done"}
        /\ Ended => exit \in {1, 130}

C3_Witness ==
    /\ AnyRaised
    /\ Ended
    /\ exit = 1
    /\ \E i \in 1..Len(tasks) : tasks[i].state = "ok"

\* a service that was started on a non-empty plan list and never returned
NeverReturned(k) == plans[k] # <<>> /\ counts[k] = NotRun

\* C4: a failing item of the copy or rename phase is swallowed: the service
\* returns its count and the run is not ended by it.
C4_CopyRenameTolerant ==
    (Real /\ Ended /\ pending = "error") =>
        /\ ~NeverReturned("copy")
        /\ ~NeverReturned("rename_in")
        /\ ~NeverReturned("rename_tmp")

TmpGone == Tmp \notin dirs /\ \A f \in fs : ~IsPrefix(Tmp, f.dir)

IsScenario ==
    /\ mode = Scenario.mode
    /\ out = Scenario.out
    /\ fs0 = Scenario.tree
    /\ entries = Scenario.entries

\* C6: in the scenario (a1 pair loose, b2-main.mp4, loose.mp4, noext1,
\* export.zip holding the c3 pair) the run builds 1 extract plan, 1 copy
\* plan, 1 rename plan and, after extraction, 2 composite plans.
C6_ScenarioPlans ==
    (IsScenario /\ CombinePlanned) =>
        /\ Len(plans["extract"]) = 1
        /\ Len(plans["copy"]) = 1
        /\ Len(plans["rename_in"]) = 1
        /\ Len(plans["combine"]) = 2

\* every service that ran carried out every one of its plans
FirstRunClean ==
    \A k \in {"copy", "rename_in", "extract", "rename_tmp"} :
        counts[k] \in {NotRun, Len(plans[k])}

\* C7: on the tree a successful run leaves, a second planning pass yields
\* no CopyPlan and no RenamePlan.
C7_SecondPassPlansNothing ==
    (Real /\ Ended /\ exit = 0 /\ FirstRunClean) =>
        /\ plan_copy_standalone_mp4s(fs, Root, out) = <<>>
        /\ plan_unlabeled_renames(fs, Root, out, SkipRoot) = <<>>

\* C8: an archive that cannot be read is skipped: ZipService.run returns
\* its count and the run is not ended by it.
C8_CorruptArchiveSkipped ==
    (Real /\ Ended /\ pending = "error") => ~NeverReturned("extract")

ExtractionComplete ==
    plans["extract"] # <<>> => counts["extract"] = Len(plans["extract"])

\* C9: a composition task exists only after every extraction has finished,
\* the scratch-folder rename runs only after the extraction, and metadata
\* reconciliation and every later step find every composition task finished.
C9_PhasesOrdered ==
    /\ Len(tasks) > 0 => ExtractionComplete /\ pc \notin {"extract", "extract_run"}
    /\ pc = "rename_tmp_run" => ExtractionComplete
    /\ pc \in {"metadata", "remove", "leave", "summary"} =>
          /\ PoolsJoined
          /\ plans["combine"] # <<>> => Len(tasks) = Len(plans["combine"])

C9_Witness ==
    /\ pc = "metadata"
    /\ Real
    /\ Len(tasks) = 2
    /\ Returned("extract") = 2
    /\ Returned("rename_tmp") >= 1

ConfigError == ~InputValid \/ (mode = "download" /\ html = "bad")

NothingStarted ==
    /\ fs = fs0
    /\ dirs = dirs0
    /\ \A k \in CountKeys : counts[k] = NotRun
    /\ \A k \in PlanKeys : plans[k] = <<>>

\* C11: a run on an input with a configuration error ends with status 2,
\* having created no directory and started no download, copy, rename,
\* extraction or composition.
C11_ConfigErrorExits2 ==
    (Ended /\ ConfigError /\ pending # "interrupt") =>
        exit = 2 /\ NothingStarted

\* the run passed the input validation and the creation of the output folder
PastValidation == ~ConfigError /\ exit # 2

\* C12: every run that got past the input validation and was not
\* interrupted has printed the end-of-run summary when it ends, whatever
\* its status.
C12_SummaryAlways ==
    (Ended /\ PastValidation /\ pending # "interrupt") => summary

Srcs(ps) == {ps[i].src : i \in 1..Len(ps)}

\* the files each kind of plan built so far takes as its source
SourcesOf(kind) ==
    CASE kind = "extract" ->
             {plans["extract"][i].zip_path : i \in 1..Len(plans["extract"])}
      [] kind = "copy" -> Srcs(plans["copy"])
      [] kind = "rename" -> Srcs(plans["rename_in"]) \cup Srcs(plans["rename_tmp"])
      [] kind = "composite" ->
             {plans["combine"][i].main_path : i \in 1..Len(plans["combine"])}

PlanKinds == {"extract", "copy", "rename", "composite"}

\* C15: no file is the source of plans of two kinds; in particular no
\* source of an extraction plan is the source of a rename plan.
C15_NoDoubleClassification ==
    \A k1 \in PlanKinds : \A k2 \in PlanKinds \ {k1} :
        SourcesOf(k1) \cap SourcesOf(k2) = {}

ZipNameOf(f) == File(f.dir, stem(f.name) \o <<".", "zip">>)

\* C16: a step of detect_and_fix_zip_files loses no file: every file keeps
\* its name, or its content is an archive, its name did not end in .zip, no
\* file '<stem>.zip' existed and it now has that name; the number of files
\* is unchanged and the returned number is the number of files renamed.
C16_FixNeverOverwrites ==
    [][(pc = "fix" /\ ~dry /\ pc' = After("fix")) =>
          /\ \A f \in fs :
                 \/ f \in fs'
                 \/ /\ f \in Mislabelled(fs, Root)
                    /\ ZipNameOf(f) \notin fs
                    /\ ZipNameOf(f) \in fs'
          /\ Cardinality(fs') = Cardinality(fs)
          /\ counts'["fixed"] = Cardinality(fs \ fs')]_vars

\* two mislabelled archives compete for the name pk.zip: one was renamed
C16_Witness ==
    /\ mode = "download"
    /\ pc = "extract"
    /\ Real
    /\ {OutPkBare, OutPkDat} \subseteq fs0
    /\ counts["fixed"] = 1
    /\ OutPkZip \in fs
    /\ Cardinality({OutPkBare, OutPkDat} \cap fs) = 1
    /\ Cardinality(fs) = Cardinality(fs0) + Returned("dl_img") + Returned("dl_vid")

\* the copy plans were just built: the filesystem is the one they were built on
CopyJustPlanned ==
    \/ Real /\ pc = "copy_run" /\ done = 0
    \/ dry /\ pc = After("copy")

OutputNested == IsPrefix(Root, out)

IsVideoName(n) == Lower(n[Len(n)]) = "mp4" /\ Len(n) >= 2 /\ n[Len(n) - 1] = "."

IsMainName(n) == \E i \in 1..(Len(n) - 1) : Lower(n[i]) = "-main" /\ n[i + 1] = "."

IsCombinedName(n) ==
    \E i \in 1..(Len(n) - 1) : Lower(n[i]) = "_combined" /\ n[i + 1] = "."

\* the path of f relative to `root`, below `dst_root`
Moved(f, root, dst_root) ==
    [dir |-> dst_root \o [i \in 1..(Len(f.dir) - Len(root)) |-> f.dir[Len(root) + i]],
     name |-> f.name]

StandaloneVideos ==
    {f \in fs :
        /\ IsPrefix(Root, f.dir)
        /\ IsVideoName(f.name)
        /\ ~IsMainName(f.name)
        /\ ~IsCombinedName(f.name)
        /\ Moved(f, Root, out) \notin fs
        /\ ~(OutputNested /\ IsPrefix(out, f.dir))}

\* C17: the copy plans are, one each, the .mp4 files under the input root
\* that are neither main files nor composited outputs, are not inside a
\* nested output folder and whose destination does not exist; each
\* destination is the output root joined with the source's relative path.
C17_CopyPlansExact ==
    CopyJustPlanned =>
        /\ Srcs(plans["copy"]) = StandaloneVideos
        /\ Len(plans["copy"]) = Cardinality(StandaloneVideos)
        /\ \A i \in 1..Len(plans["copy"]) :
               /\ plans["copy"][i].dst = Moved(plans["copy"][i].src, Root, out)
               /\ OutputNested => ~IsPrefix(out, plans["copy"][i].src.dir)

\* nested output folder holding loose.mp4 from an earlier run: in/loose.mp4
\* is not planned again, in/out/loose.mp4 is not a source, the main file
\* and the composited video are left out
C17_Witness ==
    /\ CopyJustPlanned
    /\ mode = "folder"
    /\ out = <<"in", "out">>
    /\ fs0 = {LooseMp4, OldMp4, CombinedMp4}
    /\ plans["copy"] = <<>>

RenameInJustPlanned ==
    \/ Real /\ pc = "rename_in_run" /\ done = 0
    \/ dry /\ pc = After("rename_in")

IsArchive(f) == HasZipMagic(f.name)

Untyped ==
    {f \in fs :
        /\ IsPrefix(Root, f.dir)
        /\ \A i \in 1..Len(f.name) : f.name[i] # "."
        /\ ~IsArchive(f)
        /\ ~(SkipRoot # NoPath /\ IsPrefix(SkipRoot, f.dir))}

\* C18: the rename plans of the input tree are, one each, the extensionless
\* files under the source root that are not archives and not at or below
\* skip_root; each destination is dst_root/<relative path>.jpg.
C18_RenamePlansExact ==
    RenameInJustPlanned =>
        /\ Srcs(plans["rename_in"]) = Untyped
        /\ Len(plans["rename_in"]) = Cardinality(Untyped)
        /\ \A i \in 1..Len(plans["rename_in"]) :
               LET p == plans["rename_in"][i]
               IN p.dst = File(Moved(p.src, Root, out).dir,
                               p.src.name \o <<".", "jpg">>)

\* C13: while the dry flag is set nothing is created, extracted, written,
\* renamed or deleted, and no download, composition or tagging task exists.
C13_DryRunTouchesNothing ==
    dry => /\ fs = fs0
           /\ dirs = dirs0
           /\ tasks = <<>>
           /\ dl = <<>>
           /\ md = <<>>

\* every service was called with dry_run = True on a folder that holds an
\* archive with a pair, a standalone video and an untyped file
C13_Witness ==
    /\ dry
    /\ pc = "svc_done"
    /\ fs0 = TwoPairs.tree
    /\ entries = TwoPairs.entries
    /\ Len(plans["extract"]) = 2
    /\ counts["copy"] = 1
    /\ counts["rename_in"] = 1
    /\ fs = fs0

MetadataReturned == Real /\ counts["img_tag"] # NotRun

AllTagged == \A i \in 1..Len(md) : md[i].state = "tagged"

\* C14: the number a service returns with dry_run = True is the number of
\* its plans, which is what the real service returns when no item fails
\* (extraction, copy), and the tagged counts of a real run in which no file
\* fails are the counts simulate_apply_metadata gives for the same HTML.
C14_DryCountEqualsRealCount ==
    /\ \A k \in {"extract", "copy"} :
          (Real /\ counts[k] # NotRun) => counts[k] = Len(plans[k])
    /\ pc = "svc_done" =>
          /\ counts["extract"] = Len(plans["extract"])
          /\ counts["copy"] = Len(plans["copy"])
    /\ (MetadataReturned /\ AllTagged) =>
          /\ counts["img_tag"] = simulate_apply_metadata(parse_memories_html).img
          /\ counts["vid_tag"] = simulate_apply_metadata(parse_memories_html).vid

AtLeastOne(n) == IF n < 1 THEN 1 ELSE n

OutputsWithRecord ==
    {f \in fs :
        /\ IsPrefix(out, f.dir)
        /\ \E u \in {r.uuid : r \in parse_memories_html} :
           \E e \in {"jpg", "png", "mp4", "JPG", "PNG", "MP4"} :
              f.name \in {<<u, ".", e>>, <<u, "_combined", ".", e>>}}

MdCount(st, exts) ==
    Cardinality({i \in 1..Len(md) : md[i].state = st /\ md[i].ext \in exts})

MdAnyRaised == \E i \in 1..Len(md) : md[i].state = "raised"

\* C20: apply_metadata_to_outputs has exactly one task for every output
\* file whose identifier has a record and none for any other file; it
\* returns, whatever the tasks did, the numbers of image and video files
\* tagged; and a raising task does not fail the run.
C20_MetadataIsolated ==
    /\ (Real /\ pc = "metadata_run" /\ \A i \in 1..Len(md) : ~MdFinished(i)) =>
          /\ {md[i].file : i \in 1..Len(md)} = OutputsWithRecord
          /\ Len(md) = Cardinality(OutputsWithRecord)
    /\ (Real /\ pc = "remove" /\ md # <<>>) =>
          /\ \A i \in 1..Len(md) : md[i].state \in {"tagged", "untagged", "raised"}
          /\ counts["img_tag"] = MdCount("tagged", {"jpg", "png"})
          /\ counts["vid_tag"] = MdCount("tagged", {"mp4"})
    /\ (Real /\ pc = "remove" /\ html = "ok" /\ md = <<>>) =>
          /\ OutputsWithRecord = {}
          /\ counts["img_tag"] = 0 /\ counts["vid_tag"] = 0
    /\ (MdAnyRaised /\ Ended /\ pending = "none") => exit = 0

\* c3.jpg and e5.mp4 have a record, f6.mp4 has none; one task raised, the
\* other tagged its file, and the function returned 0 and 1
C20_Witness ==
    /\ Real
    /\ pc = "remove"
    /\ Len(md) = 2
    /\ File(out, <<"f6", ".", "mp4">>) \in fs
    /\ \E i \in 1..Len(md) : md[i].state = "raised" /\ md[i].ext = "jpg"
    /\ counts["img_tag"] = 0
    /\ counts["vid_tag"] = 1

----------------------------------------------------------------------------

Mp4Done == {i \in 1..Len(md) : md[i].ext = "mp4" /\ md[i].state \in {"tagged", "untagged"}}

Calls(i, op) == {k \in 1..Len(md[i].log) : md[i].log[k].op = op}

Succeeded(i, op) == \E k \in Calls(i, op) : md[i].log[k].ok

----------------------------------------------------------------------------

PngDone ==
    {i \in 1..Len(md) : /\ md[i].ext \in {"jpg", "png"}
                        /\ ImageFormat(md[i].file.name) = "PNG"
                        /\ md[i].state \in {"tagged", "untagged"}}

HasPngSuffix(p) == LowerSeq(suffix(p.name)) = <<".", "png">>

\* no call of the task was refused by the environment, the conversion apart
NothingRefused(i) ==
    \A k \in 1..Len(md[i].log) :
        LET c == md[i].log[k]
        IN (c.op \in {"exif", "unlink"} \/ (c.op = "text" /\ HasPngSuffix(c.path)))
              => c.ok

Remaining(i) == {md[i].file, JpegPathOf(md[i].file)} \cap fs

\* C22: a PNG-encoded image output, whatever its extension, is converted to
\* a JPEG that carries the metadata while the PNG is deleted, or, when the
\* conversion fails, gets textual metadata and is kept; in both outcomes
\* exactly one file of the memory remains, and it is tagged.
C22_PngReconciled ==
    \A i \in PngDone :
        NothingRefused(i) =>
            /\ md[i].state = "tagged"
            /\ Cardinality(Remaining(i)) = 1
            /\ IF Succeeded(i, "convert")
               THEN Remaining(i) = {JpegPathOf(md[i].file)}
               ELSE Remaining(i) = {md[i].file} /\ Succeeded(i, "text")

----------------------------------------------------------------------------

\* C26: metadata reconciliation removes no memory from the output tree:
\* after a task of apply_metadata_to_outputs has ended, the file it
\* processed or the JPEG converted from it exists, also for a PNG-encoded
\* file that already bears the .jpg extension.
C26_MetadataKeepsMemory ==
    \A i \in 1..Len(md) : MdFinished(i) => Remaining(i) # {}

----------------------------------------------------------------------------

\* the overlay of the main file m, the case of the letters apart
OverlayAnyCase(m) ==
    {o \in fs : /\ o.dir = m.dir
                /\ LowerSeq(o.name) =
                      LowerSeq(RemoveMain(stem(m.name)))
                         \o <<"-overlay", ".", "png">>}

\* C23: split_uuid_and_ext returns the identifier and the extension of a
\* main file name in lower case, and identifiers are compared in that form:
\* a main file is paired with the overlay whose name carries the same
\* identifier in whatever case, and an output file has a metadata task when
\* its lower-cased identifier has a record.
C23_IdentifierNormalised ==
    /\ CombinePlanned =>
          \A m \in MainsUnderTmp :
              LET ue == split_uuid_and_ext(m.name)
              IN /\ ue.uuid = LowerSeq(ue.uuid)
                 /\ ue.ext = LowerSeq(ue.ext)
                 /\ (KnownKind(m) /\ OverlayAnyCase(m) # {})
                       => PlansOfMain(m) # {}
    /\ (Real /\ pc = "metadata_run" /\ \A i \in 1..Len(md) : ~MdFinished(i)) =>
          \A f \in fs :
              (/\ IsPrefix(out, f.dir)
               /\ MetaMatch(f.name)
               /\ \E r \in parse_memories_html : r.uuid = LowerSeq(f.name)[1])
                 => \E i \in 1..Len(md) : md[i].file = f

----------------------------------------------------------------------------

\* C24: the counters of a DryRunSimulator that is not reset never decrease,
\* and each counter equals the sum of the counts handed over for it so far.
C24_StatsAccumulate ==
    /\ [][\A k \in StatKeys : stats'[k] >= stats[k]]_vars
    /\ [](\A k \in StatKeys : stats[k] = passed[k])

----------------------------------------------------------------------------

\* a task found a file of its plan deleted, and nothing else went wrong
OnlyVanished ==
    /\ Real
    /\ \E i \in 1..Len(tasks) : tasks[i].missing
    /\ \A i \in 1..Len(tasks) : tasks[i].state = "raised" => tasks[i].missing
    /\ pending # "interrupt"

\* C25: a main or overlay file deleted between planning and execution makes
\* only its own item fail or be skipped: nothing is raised out of
\* CombineService.run, and the run does not end as a failure.
C25_VanishedFileTolerated ==
    OnlyVanished => (pending = "none" /\ (Ended => exit = 0))

----------------------------------------------------------------------------

\* the top-level archives of the input folder the run has deleted
DeletedArchives ==
    {z \in fs0 : z.dir = InDir /\ HasZipMagic(z.name) /\ z \notin fs}

WasExtracted(z) ==
    /\ counts["extract"] = Len(plans["extract"])
    /\ \E i \in 1..Len(plans["extract"]) : plans["extract"][i].zip_path = z

AfterRemoval == pc \in {"leave", "summary", "done"} /\ counts["removed"] # NotRun

\* C29, as stated: in a real folder-mode run an input archive is deleted
\* only at the very end, after copy, rename, extraction and composition
\* returned without error, and never before it was extracted; when a phase
\* failed or the run was interrupted no archive has been deleted; a failing
\* metadata task does not prevent the deletion.
C29_ArchivesRemovedLast ==
    (mode = "folder" /\ Real) =>
        /\ DeletedArchives # {} =>
              /\ AfterRemoval
              /\ ~AnyRaised
              /\ \A z \in DeletedArchives : WasExtracted(z)
        /\ pending # "none" => DeletedArchives = {}
        /\ (MdAnyRaised /\ Ended /\ pending = "none") =>
              (exit = 0 /\ counts["removed"] # NotRun)

\* C29, amended: as above, but an interrupt rules the deletion out only
\* when it arrives before the removal step; an interrupt that arrives
\* after it (while the scratch folder is removed or the summary is
\* written) finds the archives already deleted.
C29_ArchivesRemovedLastUnlessLate ==
    (mode = "folder" /\ Real) =>
        /\ DeletedArchives # {} =>
              /\ AfterRemoval
              /\ ~AnyRaised
              /\ \A z \in DeletedArchives : WasExtracted(z)
        /\ pending = "error" => DeletedArchives = {}
        /\ (pending = "interrupt" /\ ~AfterRemoval) => DeletedArchives = {}
        /\ (MdAnyRaised /\ Ended /\ pending = "none") =>
              (exit = 0 /\ counts["removed"] # NotRun)

\* the archive was extracted and deleted in a run that ended with status 0
\* although a metadata task raised
C29_Witness ==
    /\ mode = "folder" /\ Real /\ Ended /\ exit = 0
    /\ ExportZip \in DeletedArchives
    /\ MdAnyRaised

----------------------------------------------------------------------------

\* C27: no two plans of one plan_filesystem_combinations call have the same
\* out_path, so no two composition tasks that run at the same time write
\* the same file, also when an identifier occurs as main file in two
\* directories or under two extensions.
C27_OutPathsDistinct ==
    /\ CombinePlanned =>
          \A i, j \in 1..Len(plans["combine"]) :
              i # j => plans["combine"][i].out_path # plans["combine"][j].out_path
    /\ \A i, j \in 1..Len(tasks) :
          (i # j /\ tasks[i].state = "running" /\ tasks[j].state = "running")
             => tasks[i].plan.out_path # tasks[j].plan.out_path

----------------------------------------------------------------------------

\* C28: when a composition task raises, no other task is cancelled: when
\* the exception has left CombineService.run every submitted task has run
\* to its end; the progress bar was advanced once for each future collected,
\* the failed one included; and neither the metadata phase nor the archive
\* removal is started in that run.
C28_FailureCancelsNothing ==
    AnyRaised =>
        /\ Ended => \A i \in 1..Len(tasks) : Finished(i)
        /\ done = Cardinality(collected)
        /\ md = <<>>
        /\ counts["img_tag"] = NotRun /\ counts["removed"] = NotRun
        /\ pc \notin {"metadata", "metadata_run", "metadata_unwind", "remove",
                      "leave", "summary"}

\* the first future collected had raised; the loop was left with the bar at
\* one, and a task that was never collected has run to its end
C28_Witness ==
    /\ AnyRaised /\ Ended /\ exit = 1
    /\ Cardinality(collected) = 1 /\ done = 1
    /\ \A i \in collected : tasks[i].state = "raised"
    /\ \E i \in 1..Len(tasks) : i \notin collected /\ tasks[i].state = "ok"

----------------------------------------------------------------------------

AllFalse(t) == \A k \in 1..Len(t) : ~t[k]

DownloadReturned == Real /\ counts["dl_img"] # NotRun

\* C30: download_item makes at most three fetch attempts for an item, stops
\* at the first that succeeds and returns success, returns failure only
\* after the third failed attempt in a row, and never raises; download_all
\* counts exactly the items for which success was returned, so its totals
\* do not exceed the number of items.
C30_BoundedRetry ==
    /\ \A i \in 1..Len(dl) :
          LET t == dl[i].tries
          IN /\ Len(t) <= 3
             /\ dl[i].state \in {"queued", "running", "ok", "failed"}
             /\ dl[i].state = "queued" => t = <<>>
             /\ dl[i].state = "running" => AllFalse(t)
             /\ dl[i].state = "ok" =>
                   (t # <<>> /\ t[Len(t)] /\ AllFalse(SubSeq(t, 1, Len(t) - 1)))
             /\ dl[i].state = "failed" => (Len(t) = 3 /\ AllFalse(t))
    /\ DownloadReturned =>
          /\ counts["dl_img"] =
                Cardinality({i \in 1..Len(dl) : dl[i].item.kind = "image"
                                                  /\ dl[i].state = "ok"})
          /\ counts["dl_vid"] =
                Cardinality({i \in 1..Len(dl) : dl[i].item.kind = "video"
                                                  /\ dl[i].state = "ok"})
          /\ counts["dl_img"] + counts["dl_vid"] <= Cardinality(items)

\* of two items one was fetched at the third attempt and the other was
\* given up after three, and download_all returned a total of one
C30_Witness ==
    /\ DownloadReturned
    /\ Len(dl) = 2
    /\ \E i \in 1..Len(dl) : dl[i].tries = <<FALSE, FALSE, TRUE>>
    /\ \E i \in 1..Len(dl) : dl[i].state = "failed"
    /\ counts["dl_img"] + counts["dl_vid"] = 1

====
